---- MODULE Spec2Model ----
(***************************************************************************)
(* Model of ZiweiService (core/ziwei/ziwei.service.ts): the chart pipeline  *)
(* calculateZiweiChart, the period synthesis generateLuckPeriods, the star  *)
(* classifier organizeStarInfo, the transformation resolver                 *)
(* calculateTransformations and the per-palace lookups.                     *)
(*                                                                         *)
(* IztroService and Tyme4tsService are collaborators whose source is not    *)
(* part of the files modelled here; their operations are modelled from the  *)
(* written contract and are marked as such where they are defined.          *)
(* Chinese names are written in pinyin.                                     *)
(***************************************************************************)
EXTENDS Integers, Sequences, FiniteSets, TLC

VARIABLES
    input,      \* arguments of the operation being applied
    output,     \* result of a pure operation; <<>> before it has been applied
    fpc,        \* "ready" before a pure operation is applied, "done" after
    clock,      \* generateLuckPeriods: per call, the instant new Date() returns
    lpc,        \* generateLuckPeriods: per call, the statement reached
    loc,        \* generateLuckPeriods: per call, the local constants
    pc,         \* calculateZiweiChart: the step to run next, "returned" or "failed"
    env,        \* calculateZiweiChart: the local constants, <<>> while unset
    thrown,     \* calculateZiweiChart: the error the caller receives, <<>> if none
    calls,      \* calculateZiweiChart: invocations made of each collaborator operation
    failedAt    \* calculateZiweiChart: the step whose collaborator call threw (history)

fvars == <<input, output, fpc>>
pvars == <<clock, lpc, loc>>
cvars == <<pc, env, thrown, calls, failedAt>>
vars == <<input, output, fpc, clock, lpc, loc, pc, env, thrown, calls, failedAt>>

\* the variables of generateLuckPeriods while no call of it is modelled
IdleP == clock = <<>> /\ lpc = <<>> /\ loc = <<>>

\* the variables of calculateZiweiChart while no call of it is modelled
IdleC == pc = "idle" /\ env = <<>> /\ thrown = <<>> /\ calls = <<>> /\ failedAt = "none"

----------------------------------------------------------------------------
(* Bounds *)

\* longest star list of one palace
MaxStars == 2

\* largest age bound of a major period
MaxAge == 4

\* longest major period sequence
MaxPeriods == 2

\* most month boundaries the clock crosses during one call
MaxTicks == 1

\* most further getTripleSquarePalaces queries a caller makes from a result
MaxHops == 2

----------------------------------------------------------------------------
(* Generic helpers: JavaScript array and object idioms used by the service *)

\* obj[k] = v on a Record<string, T>
Put(m, k, v) == [x \in (DOMAIN m) \cup {k} |-> IF x = k THEN v ELSE m[x]]

\* (obj[k] || [])
GetOrEmpty(m, k) == IF k \in DOMAIN m THEN m[k] ELSE <<>>

\* all sequences over S of length 0..n
SeqsUpTo(S, n) == UNION {[1..k -> S] : k \in 0..n}

RECURSIVE SumSeq(_)
SumSeq(s) == IF s = <<>> THEN 0 ELSE Head(s) + SumSeq(Tail(s))

\* number of indices of s whose element satisfies membership in S
CountIn(s, S) == Cardinality({i \in DOMAIN s : s[i] \in S})

\* Array.prototype.filter by membership in S, order kept
RECURSIVE FilterIn(_, _)
FilterIn(s, S) ==
    IF s = <<>> THEN <<>>
    ELSE IF Head(s) \in S THEN <<Head(s)>> \o FilterIn(Tail(s), S)
    ELSE FilterIn(Tail(s), S)

----------------------------------------------------------------------------
(* Star classification tables of IztroService (contract: a fixed membership *)
(* table per category).  The service tests them in the order main, lucky,   *)
(* evil with else-if, so the model keeps names that sit in more than one    *)
(* table to make that order observable.                                     *)

StarNames == {"ziwei", "zuofu", "qingyang", "tianxing", "wenchang", "huoxing"}

MainStarTable  == {"ziwei", "wenchang"}
LuckyStarTable == {"zuofu", "wenchang", "huoxing"}
EvilStarTable  == {"qingyang", "wenchang", "huoxing"}

isMainStar(star)  == star \in MainStarTable
isLuckyStar(star) == star \in LuckyStarTable
isEvilStar(star)  == star \in EvilStarTable

\* the twelve canonical palace names, in ring order
PalaceNames ==
    << "minggong", "xiongdigong", "fuqigong", "zinvgong", "caibogong",
       "jiegong", "qianyigong", "jiaoyougong", "guanlugong", "tianzhaigong",
       "fudegong", "fumugong" >>

\* the palaces a modelled chart holds (a chart of the service holds all twelve)
ChartNames == <<"minggong", "xiongdigong">>

\* charts the chart-primitive collaborator can return: one palace per name of
\* ChartNames, in that order, at distinct positions, each with a star list
Charts(positions, stars, maxLen) ==
    { [i \in DOMAIN ChartNames |->
          [name |-> ChartNames[i], position |-> pos[i], stars |-> st[i]]] :
        pos \in {p \in [DOMAIN ChartNames -> positions] :
                    \A i, j \in DOMAIN ChartNames : i # j => p[i] # p[j]},
        st \in [DOMAIN ChartNames -> SeqsUpTo(stars, maxLen)] }

----------------------------------------------------------------------------
(* organizeStarInfo *)

EmptyStarInfo == [mainStars |-> <<>>, luckyStars |-> <<>>, evilStars |-> <<>>]

\* body of the inner forEach with every branch tested independently: a star
\* that sits in several tables lands in several maps
ClassifyStarNoElse(info, name, star) ==
    LET a == IF isMainStar(star)
             THEN [info EXCEPT !.mainStars =
                      Put(@, name, Append(GetOrEmpty(@, name), star))]
             ELSE info
        b == IF isLuckyStar(star)
             THEN [a EXCEPT !.luckyStars =
                      Put(@, name, Append(GetOrEmpty(@, name), star))]
             ELSE a
    IN  IF isEvilStar(star)
        THEN [b EXCEPT !.evilStars =
                 Put(@, name, Append(GetOrEmpty(@, name), star))]
        ELSE b

\* body of the inner forEach with the new star put in front of the list
ClassifyStarPrepend(info, name, star) ==
    IF isMainStar(star)
    THEN [info EXCEPT !.mainStars =
             Put(@, name, <<star>> \o GetOrEmpty(@, name))]
    ELSE IF isLuckyStar(star)
    THEN [info EXCEPT !.luckyStars =
             Put(@, name, <<star>> \o GetOrEmpty(@, name))]
    ELSE IF isEvilStar(star)
    THEN [info EXCEPT !.evilStars =
             Put(@, name, <<star>> \o GetOrEmpty(@, name))]
    ELSE info

\* body of the inner forEach: the if / else if / else if chain
ClassifyStar(info, name, star) ==
    IF isMainStar(star)
    THEN [info EXCEPT !.mainStars =
             Put(@, name, Append(GetOrEmpty(@, name), star))]
    ELSE IF isLuckyStar(star)
    THEN [info EXCEPT !.luckyStars =
             Put(@, name, Append(GetOrEmpty(@, name), star))]
    ELSE IF isEvilStar(star)
    THEN [info EXCEPT !.evilStars =
             Put(@, name, Append(GetOrEmpty(@, name), star))]
    ELSE info

\* palace.stars.forEach(...)
RECURSIVE ClassifyStars(_, _, _)
ClassifyStars(info, name, stars) ==
    IF stars = <<>> THEN info
    ELSE ClassifyStars(ClassifyStar(info, name, Head(stars)), name, Tail(stars))

\* palaces.forEach(...)
RECURSIVE ClassifyPalaces(_, _)
ClassifyPalaces(info, palaces) ==
    IF palaces = <<>> THEN info
    ELSE ClassifyPalaces(
            ClassifyStars(info, Head(palaces).name, Head(palaces).stars),
            Tail(palaces))

\* IztroService.getKeyStarsLocation (contract: each key star present in the
\* chart mapped to the palace that holds it, a missing key star omitted)
KeyStars == {"ziwei"}

getKeyStarsLocation(palaces) ==
    LET present == {k \in KeyStars :
                      \E i \in DOMAIN palaces :
                          \E j \in DOMAIN palaces[i].stars : palaces[i].stars[j] = k}
    IN  [k \in present |->
            palaces[CHOOSE i \in DOMAIN palaces :
                       /\ \E j \in DOMAIN palaces[i].stars : palaces[i].stars[j] = k
                       /\ \A h \in DOMAIN palaces :
                            (\E j \in DOMAIN palaces[h].stars : palaces[h].stars[j] = k)
                               => i <= h].name]

organizeStarInfo(palaces) ==
    LET info == ClassifyPalaces(EmptyStarInfo, palaces)
    IN  [mainStars |-> info.mainStars,
         luckyStars |-> info.luckyStars,
         evilStars |-> info.evilStars,
         keyStarsLocation |-> getKeyStarsLocation(palaces)]

----------------------------------------------------------------------------
(* Specification SpecStars: organizeStarInfo applied to any chart *)

StarCharts == Charts({1, 2}, StarNames, MaxStars)

InitStars ==
    /\ input \in StarCharts
    /\ output = <<>>
    /\ fpc = "ready"
    /\ IdleP
    /\ IdleC

ApplyOrganizeStarInfo ==
    /\ fpc = "ready"
    /\ output' = organizeStarInfo(input)
    /\ fpc' = "done"
    /\ UNCHANGED <<input, pvars, cvars>>

NextStars == ApplyOrganizeStarInfo

SpecStars == InitStars /\ [][NextStars]_vars

\* the stars each category map receives, by the priority main, lucky, evil
AsMain  == MainStarTable
AsLucky == LuckyStarTable \ MainStarTable
AsEvil  == EvilStarTable \ (MainStarTable \cup LuckyStarTable)
AnyTable == MainStarTable \cup LuckyStarTable \cup EvilStarTable

\* number of entries of a category map
MapSize(m) == SumSeq([i \in DOMAIN ChartNames |-> Len(GetOrEmpty(m, ChartNames[i]))])

\* C3: every (palace, star) occurrence is in at most one of the three maps
\* (main before lucky before evil), a star of no table is in none, and the
\* three maps together hold as many entries as there are star occurrences
\* that belong to at least one table.
C3_ClassifiedOnce ==
    fpc = "done" =>
        /\ \A i \in DOMAIN input : \A s \in StarNames :
              LET n  == input[i].name
                  inMain  == CountIn(GetOrEmpty(output.mainStars, n), {s})
                  inLucky == CountIn(GetOrEmpty(output.luckyStars, n), {s})
                  inEvil  == CountIn(GetOrEmpty(output.evilStars, n), {s})
                  occ == CountIn(input[i].stars, {s})
              IN  /\ inMain  = (IF s \in AsMain THEN occ ELSE 0)
                  /\ inLucky = (IF s \in AsLucky THEN occ ELSE 0)
                  /\ inEvil  = (IF s \in AsEvil THEN occ ELSE 0)
                  /\ s \notin AnyTable => inMain + inLucky + inEvil = 0
        /\ MapSize(output.mainStars) + MapSize(output.luckyStars)
              + MapSize(output.evilStars)
             = SumSeq([i \in DOMAIN input |-> CountIn(input[i].stars, AnyTable)])

\* a chart with a star of all three tables, a star of the lucky and evil
\* tables and a star of no table has been classified
C3_Witness ==
    /\ fpc = "done"
    /\ input[1].stars = <<"wenchang", "tianxing">>
    /\ input[2].stars = <<"huoxing", "huoxing">>
    /\ output.mainStars = [x \in {"minggong"} |-> <<"wenchang">>]
    /\ output.luckyStars = [x \in {"xiongdigong"} |-> <<"huoxing", "huoxing">>]
    /\ DOMAIN output.evilStars = {}

\* C4: the list under a palace name in a category map is that palace's stars
\* of the category in the palace's own order, and a name is a key of the map
\* exactly when the palace has a star of the category.
C4_OrderAndKeys ==
    fpc = "done" =>
        /\ \A i \in DOMAIN input :
              LET n == input[i].name
                  st == input[i].stars
              IN  /\ GetOrEmpty(output.mainStars, n) = FilterIn(st, AsMain)
                  /\ GetOrEmpty(output.luckyStars, n) = FilterIn(st, AsLucky)
                  /\ GetOrEmpty(output.evilStars, n) = FilterIn(st, AsEvil)
                  /\ n \in DOMAIN output.mainStars <=> FilterIn(st, AsMain) # <<>>
                  /\ n \in DOMAIN output.luckyStars <=> FilterIn(st, AsLucky) # <<>>
                  /\ n \in DOMAIN output.evilStars <=> FilterIn(st, AsEvil) # <<>>
        /\ \A m \in {output.mainStars, output.luckyStars, output.evilStars} :
              /\ DOMAIN m \subseteq {input[i].name : i \in DOMAIN input}
              /\ \A k \in DOMAIN m : m[k] # <<>>

\* a palace with two different main stars and a palace with none
C4_Witness ==
    /\ fpc = "done"
    /\ input[1].stars = <<"wenchang", "ziwei">>
    /\ input[2].stars = <<"tianxing">>
    /\ output.mainStars = [x \in {"minggong"} |-> <<"wenchang", "ziwei">>]
    /\ DOMAIN output.luckyStars = {}

----------------------------------------------------------------------------
(* calculateTransformations *)

Stems == {"jia", "yi", "bing", "ding", "wu", "ji", "geng", "xin", "ren", "gui"}

TransformationTypes == <<"huaxing", "huaquan", "huake", "huaji">>

\* one row of the stem table: four stars, one per transformation type
StemRow(a, b, c, d) ==
    << [star |-> a, type |-> TransformationTypes[1]],
       [star |-> b, type |-> TransformationTypes[2]],
       [star |-> c, type |-> TransformationTypes[3]],
       [star |-> d, type |-> TransformationTypes[4]] >>

\* IztroService stem table (contract: a fixed table of 10 stems, each giving
\* exactly one star per transformation type)
StemTable ==
    [s \in Stems |->
        CASE s = "jia"  -> StemRow("lianzhen", "pojun", "wuqu", "taiyang")
          [] s = "yi"   -> StemRow("tianji", "tianliang", "ziwei", "taiyin")
          [] s = "bing" -> StemRow("tiantong", "tianji", "wenchang", "lianzhen")
          [] s = "ding" -> StemRow("taiyin", "tiantong", "tianji", "jumen")
          [] s = "wu"   -> StemRow("tanlang", "taiyin", "youbi", "tianji")
          [] s = "ji"   -> StemRow("wuqu", "tanlang", "tianliang", "wenqu")
          [] s = "geng" -> StemRow("taiyang", "wuqu", "taiyin", "tiantong")
          [] s = "xin"  -> StemRow("jumen", "taiyang", "wenqu", "wenchang")
          [] s = "ren"  -> StemRow("tianliang", "ziwei", "zuofu", "wuqu")
          [] s = "gui"  -> StemRow("pojun", "jumen", "taiyin", "tanlang")]

getTransformationsByStem(stem) == StemTable[stem]

\* whether palace holds star
HasStar(palace, star) == \E j \in DOMAIN palace.stars : palace.stars[j] = star

\* IztroService.findTransformationPalaces (contract: each (star, type) pair is
\* looked up in the palaces' star lists; a pair whose star is in a palace is
\* appended to the list under that palace's name, a pair whose star is in no
\* palace is left out)
RECURSIVE findTransformationPalacesFrom(_, _, _)
findTransformationPalacesFrom(acc, transformations, palaces) ==
    IF transformations = <<>> THEN acc
    ELSE LET t == Head(transformations)
             holders == {i \in DOMAIN palaces : HasStar(palaces[i], t.star)}
             next ==
                 IF holders = {} THEN acc
                 ELSE LET i == CHOOSE h \in holders : \A g \in holders : h <= g
                          n == palaces[i].name
                      IN  Put(acc, n, Append(GetOrEmpty(acc, n), t))
         IN  findTransformationPalacesFrom(next, Tail(transformations), palaces)

findTransformationPalaces(transformations, palaces) ==
    findTransformationPalacesFrom(<<>>, transformations, palaces)

\* the resolver with the per-stem lists cut down to the stars found in a palace
calculateTransformationsFiltered(fourPillars, palaces) ==
    LET found(ts) == SelectSeq(ts, LAMBDA t :
                        \E i \in DOMAIN palaces : HasStar(palaces[i], t.star))
        yearStemTransformations == found(getTransformationsByStem(fourPillars.year.stem))
        dayStemTransformations == found(getTransformationsByStem(fourPillars.day.stem))
    IN  [yearStem |-> [stem |-> fourPillars.year.stem,
                       transformations |-> yearStemTransformations],
         dayStem |-> [stem |-> fourPillars.day.stem,
                      transformations |-> dayStemTransformations],
         palaces |-> findTransformationPalaces(
                        yearStemTransformations \o dayStemTransformations, palaces)]

\* the resolver with the year stem's list repeated in front of the day stem's
calculateTransformationsMerged(fourPillars, palaces) ==
    LET yearStemTransformations == getTransformationsByStem(fourPillars.year.stem)
        dayStemTransformations ==
            yearStemTransformations \o getTransformationsByStem(fourPillars.day.stem)
    IN  [yearStem |-> [stem |-> fourPillars.year.stem,
                       transformations |-> yearStemTransformations],
         dayStem |-> [stem |-> fourPillars.day.stem,
                      transformations |-> dayStemTransformations],
         palaces |-> findTransformationPalaces(dayStemTransformations, palaces)]

calculateTransformations(fourPillars, palaces) ==
    LET yearStemTransformations == getTransformationsByStem(fourPillars.year.stem)
        dayStemTransformations == getTransformationsByStem(fourPillars.day.stem)
        transformationPalaces ==
            findTransformationPalaces(
                yearStemTransformations \o dayStemTransformations, palaces)
    IN  [yearStem |-> [stem |-> fourPillars.year.stem,
                       transformations |-> yearStemTransformations],
         dayStem |-> [stem |-> fourPillars.day.stem,
                      transformations |-> dayStemTransformations],
         palaces |-> transformationPalaces]

----------------------------------------------------------------------------
(* Specification SpecTrans: calculateTransformations applied to any pair of *)
(* year and day stems and any chart in which a star sits in one palace only *)

TransStars == {"lianzhen", "taiyang", "tianji"}

\* stars of the whole chart, palace after palace
RECURSIVE AllStars(_)
AllStars(palaces) ==
    IF palaces = <<>> THEN <<>> ELSE Head(palaces).stars \o AllStars(Tail(palaces))

NoStarTwice(palaces) ==
    LET all == AllStars(palaces)
    IN  \A i, j \in DOMAIN all : i # j => all[i] # all[j]

TransCharts == {c \in Charts({1, 2}, TransStars, MaxStars) : NoStarTwice(c)}

FourPillarsSet ==
    {[year |-> [stem |-> y], day |-> [stem |-> d]] : y \in Stems, d \in Stems}

InitTrans ==
    /\ input \in {[fourPillars |-> f, palaces |-> c] :
                     f \in FourPillarsSet, c \in TransCharts}
    /\ output = <<>>
    /\ fpc = "ready"
    /\ IdleP
    /\ IdleC

ApplyCalculateTransformations ==
    /\ fpc = "ready"
    /\ output' = calculateTransformations(input.fourPillars, input.palaces)
    /\ fpc' = "done"
    /\ UNCHANGED <<input, pvars, cvars>>

NextTrans == ApplyCalculateTransformations

SpecTrans == InitTrans /\ [][NextTrans]_vars

\* the transformations of ts whose star is in palace, in the order of ts
LandingIn(ts, palace) == SelectSeq(ts, LAMBDA t : HasStar(palace, t.star))

\* C5: the year stem's and the day stem's lists are reported as the stem
\* table gives them, whether or not their stars are in a palace; the palace
\* map holds, under each palace that holds a transformed star, the
\* transformations of the year stem's list followed by those of the day stem's
\* list that land there, and nothing for a star that is in no palace.
C5_ListsKeptMapBestEffort ==
    fpc = "done" =>
        LET yearList == StemTable[input.fourPillars.year.stem]
            dayList == StemTable[input.fourPillars.day.stem]
        IN  /\ output.yearStem.stem = input.fourPillars.year.stem
            /\ output.dayStem.stem = input.fourPillars.day.stem
            /\ output.yearStem.transformations = yearList
            /\ output.dayStem.transformations = dayList
            /\ Len(output.yearStem.transformations) = 4
            /\ Len(output.dayStem.transformations) = 4
            /\ \A i \in DOMAIN input.palaces :
                  LET p == input.palaces[i]
                  IN  /\ GetOrEmpty(output.palaces, p.name)
                           = LandingIn(yearList, p) \o LandingIn(dayList, p)
                      /\ p.name \in DOMAIN output.palaces
                           <=> LandingIn(yearList \o dayList, p) # <<>>
            /\ DOMAIN output.palaces
                  \subseteq {input.palaces[i].name : i \in DOMAIN input.palaces}
            /\ \A k \in DOMAIN output.palaces :
                  \A j \in DOMAIN output.palaces[k] :
                     \E i \in DOMAIN input.palaces :
                        /\ input.palaces[i].name = k
                        /\ HasStar(input.palaces[i], output.palaces[k][j].star)

\* year stem jia and day stem yi: taiyang (jia) and tianji (yi) sit in the
\* first palace, lianzhen (jia) in the second, the other five stars in none
C5_Witness ==
    /\ fpc = "done"
    /\ input.fourPillars.year.stem = "jia"
    /\ input.fourPillars.day.stem = "yi"
    /\ input.palaces[1].stars = <<"tianji", "taiyang">>
    /\ input.palaces[2].stars = <<"lianzhen">>
    /\ output.palaces["minggong"]
          = << [star |-> "taiyang", type |-> "huaji"],
               [star |-> "tianji", type |-> "huaxing"] >>
    /\ output.palaces["xiongdigong"] = << [star |-> "lianzhen", type |-> "huaxing"] >>
    /\ Len(output.yearStem.transformations) = 4

\* the number of entries of ts that have the given type
CountOfType(ts, type) == Cardinality({j \in DOMAIN ts : ts[j].type = type})

\* a list of exactly four (star, type) pairs with each type exactly once
OnePerType(ts) ==
    /\ Len(ts) = 4
    /\ \A k \in DOMAIN TransformationTypes :
          CountOfType(ts, TransformationTypes[k]) = 1

----------------------------------------------------------------------------
(* Per-palace lookups and the palace mapping of calculateZiweiChart *)

\* JavaScript's remainder a % n for n > 0: the sign follows the dividend
JsRem(a, n) == IF a >= 0 THEN a % n ELSE -((-a) % n)

directions ==
    << "zhengbei", "dongbei", "zhengdong", "dongnan",
       "zhengnan", "xinan", "zhengxi", "xibei" >>

\* the lookup with the ring size used as the modulus
getPalaceDirectionMod12(position) ==
    LET idx == JsRem(position - 1, 12)
    IN  IF idx >= 0 /\ idx < Len(directions) THEN directions[idx + 1] ELSE "weizhi"

\* directions[(position - 1) % 8] || 'weizhi'
getPalaceDirection(position) ==
    LET idx == JsRem(position - 1, 8)
    IN  IF idx >= 0 /\ idx < Len(directions) THEN directions[idx + 1] ELSE "weizhi"

significanceMap ==
    [n \in {PalaceNames[i] : i \in DOMAIN PalaceNames} |->
        CASE n = "minggong"     -> "character, innate fortune, overall destiny"
          [] n = "xiongdigong"  -> "siblings, friends, partners"
          [] n = "fuqigong"     -> "marriage, spouse, relationships"
          [] n = "zinvgong"     -> "children, juniors, creativity"
          [] n = "caibogong"    -> "wealth, income, money management"
          [] n = "jiegong"      -> "health, illness, constitution"
          [] n = "qianyigong"   -> "going out, travel, dealings with people"
          [] n = "jiaoyougong"  -> "friends, colleagues, social circle"
          [] n = "guanlugong"   -> "career, work, professional development"
          [] n = "tianzhaigong" -> "property, family, ancestral estate"
          [] n = "fudegong"     -> "blessings, inner life, hobbies"
          [] n = "fumugong"     -> "parents, elders, superiors"]

\* significanceMap is an object literal: a lookup of a key it does not own
\* goes on to Object.prototype, whose members are functions or objects and so
\* truthy; the model writes such a member as the string "Object.prototype." \o key
ObjectPrototypeKeys ==
    {"constructor", "toString", "valueOf", "hasOwnProperty", "__proto__"}

InheritedMember(key) ==
    CASE key = "constructor"    -> "Object.prototype.constructor"
      [] key = "toString"       -> "Object.prototype.toString"
      [] key = "valueOf"        -> "Object.prototype.valueOf"
      [] key = "hasOwnProperty" -> "Object.prototype.hasOwnProperty"
      [] key = "__proto__"      -> "Object.prototype"

\* significanceMap[palaceName] || 'weizhi gongwei'
getPalaceSignificance(palaceName) ==
    IF palaceName \in DOMAIN significanceMap
    THEN significanceMap[palaceName]
    ELSE IF palaceName \in ObjectPrototypeKeys
    THEN InheritedMember(palaceName)
    ELSE "weizhi gongwei"

\* the callback of ziweiData.palaces.map with isVoid set for a single star
EnrichPalaceVoidOnOne(palace) ==
    [name |-> palace.name,
     position |-> palace.position,
     stars |-> palace.stars,
     isVoid |-> (Len(palace.stars) = 1),
     direction |-> getPalaceDirection(palace.position),
     significance |-> getPalaceSignificance(palace.name)]

\* the callback of ziweiData.palaces.map
EnrichPalace(palace) ==
    [name |-> palace.name,
     position |-> palace.position,
     stars |-> palace.stars,
     isVoid |-> (Len(palace.stars) = 0),
     direction |-> getPalaceDirection(palace.position),
     significance |-> getPalaceSignificance(palace.name)]

\* ziweiData.palaces.map(palace => ({...}))
EnrichPalaces(palaces) == [i \in DOMAIN palaces |-> EnrichPalace(palaces[i])]

----------------------------------------------------------------------------
(* Specification SpecAssemble: the palace mapping applied to any chart whose *)
(* palaces sit at distinct positions of the ring 1..12                       *)

RingPositions == 1..Len(PalaceNames)

AssembleCharts == Charts(RingPositions, {"ziwei"}, MaxStars)

InitAssemble ==
    /\ input \in AssembleCharts
    /\ output = <<>>
    /\ fpc = "ready"
    /\ IdleP
    /\ IdleC

ApplyEnrichPalaces ==
    /\ fpc = "ready"
    /\ output' = EnrichPalaces(input)
    /\ fpc' = "done"
    /\ UNCHANGED <<input, pvars, cvars>>

NextAssemble == ApplyEnrichPalaces

SpecAssemble == InitAssemble /\ [][NextAssemble]_vars

\* p + 8 taken round the ring of twelve positions
WrapPlus8(p) == ((p + 8 - 1) % Len(PalaceNames)) + 1

\* C6 as stated: a palace at position p and the palace at position p + 8,
\* taken round the ring 1..12, always get the same direction.
C6_PeriodicRoundTheRing ==
    fpc = "done" =>
        \A i, j \in DOMAIN input :
            input[j].position = WrapPlus8(input[i].position)
               => output[i].direction = output[j].direction

\* C6 as amended: the direction of position p is the direction the lookup
\* gives for the plain number p + 8, so two palaces at p and p + 8 (p in 1..4)
\* get the same direction, position 9 that of position 1; every position gets
\* one of the eight directions; and for p in 5..12 the palace at p + 8 - 12
\* gets a different direction.
C6_PeriodicNoWrap ==
    fpc = "done" =>
        /\ \A i \in DOMAIN input :
              /\ output[i].direction = getPalaceDirection(input[i].position + 8)
              /\ \E k \in DOMAIN directions : output[i].direction = directions[k]
        /\ \A i, j \in DOMAIN input :
              /\ input[j].position = input[i].position + 8
                    => output[i].direction = output[j].direction
              /\ (input[i].position + 8 > Len(PalaceNames)
                     /\ input[j].position = WrapPlus8(input[i].position))
                    => output[i].direction # output[j].direction

\* palaces at positions 1 and 9 have both been given the first direction
C6_Witness ==
    /\ fpc = "done"
    /\ input[1].position = 1
    /\ input[2].position = 9
    /\ output[1].direction = "zhengbei"
    /\ output[2].direction = "zhengbei"

----------------------------------------------------------------------------
(* generateLuckPeriods *)

(* An instant is a count of months: new Date() is read at month granularity,  *)
(* which is the finest grain the code takes apart itself (getFullYear,        *)
(* getMonth); the Date objects handed to the daily and hourly rules carry the *)
(* instant as it is.                                                          *)

\* new Date().getFullYear()
getFullYear(t) == t \div 12

\* new Date().getMonth() + 1
MonthOf(t) == (t % 12) + 1

\* gender === 'male' ? 'man' : 'woman'
IztroGender(gender) == IF gender = "male" THEN "man" ELSE "woman"

\* the palace a marker lands on: a rotation round the ring (contract: each
\* marker rule maps its arguments to exactly one palace)
RingPalace(k) == PalaceNames[(k % Len(PalaceNames)) + 1]

\* IztroService marker rules (contract: each is a function of the birth
\* moment, the chart and the calendar arguments it is handed, giving one
\* LuckPeriod); the arguments are kept in the label
calculateMinorPeriod(lunarDate, gender, year) ==
    [startAge |-> year - lunarDate.year, endAge |-> year - lunarDate.year,
     palace |-> RingPalace(year - lunarDate.year + (IF gender = "man" THEN 0 ELSE 6)),
     label |-> <<"minor", year>>]

calculateAnnualPeriod(lunarDate, year, palaces) ==
    [startAge |-> year - lunarDate.year, endAge |-> year - lunarDate.year,
     palace |-> RingPalace(year),
     label |-> <<"annual", year>>]

calculateMonthlyPeriod(lunarDate, year, month, palaces) ==
    [startAge |-> year - lunarDate.year, endAge |-> year - lunarDate.year,
     palace |-> RingPalace(year + month),
     label |-> <<"monthly", year, month>>]

calculateDailyPeriod(lunarDate, date, palaces) ==
    [startAge |-> getFullYear(date) - lunarDate.year,
     endAge |-> getFullYear(date) - lunarDate.year,
     palace |-> RingPalace(date),
     label |-> <<"daily", date>>]

calculateHourlyPeriod(lunarDate, date, palaces) ==
    [startAge |-> getFullYear(date) - lunarDate.year,
     endAge |-> getFullYear(date) - lunarDate.year,
     palace |-> RingPalace(date + 1),
     label |-> <<"hourly", date>>]

\* age ranges a major period can have
AgeRanges ==
    {r \in [startAge : 0..MaxAge, endAge : 0..MaxAge] : r.startAge < r.endAge}

\* IztroService.calculateMajorPeriods (contract: a sequence of non-overlapping
\* age ranges in ascending order, startAge < endAge, each bound to one palace;
\* width, count and starting age are the collaborator's, gaps are possible)
MajorPeriodSeqs ==
    { [i \in DOMAIN rs |->
          [startAge |-> rs[i].startAge, endAge |-> rs[i].endAge,
           palace |-> PalaceNames[i]]] :
        rs \in {q \in SeqsUpTo(AgeRanges, MaxPeriods) :
                   \A i \in DOMAIN q :
                       i + 1 \in DOMAIN q => q[i].endAge <= q[i + 1].startAge} }

\* the predicate of majorPeriods.find
InPeriod(period, age) == age >= period.startAge /\ age < period.endAge

\* the selection with the upper bound included
FindCurrentMajorInclusive(majorPeriods, age) ==
    LET hits == {i \in DOMAIN majorPeriods :
                    age >= majorPeriods[i].startAge /\ age <= majorPeriods[i].endAge}
    IN  IF hits # {} THEN CHOOSE i \in hits : \A j \in hits : i <= j
        ELSE IF Len(majorPeriods) > 0 THEN 1
        ELSE 0

\* the selection with the last period as the fallback
FindCurrentMajorLast(majorPeriods, age) ==
    LET hits == {i \in DOMAIN majorPeriods : InPeriod(majorPeriods[i], age)}
    IN  IF hits # {} THEN CHOOSE i \in hits : \A j \in hits : i <= j
        ELSE Len(majorPeriods)

\* majorPeriods.find(...) || majorPeriods[0], as the index of the period
\* selected; 0 stands for undefined (find misses and the array is empty)
FindCurrentMajor(majorPeriods, age) ==
    LET hits == {i \in DOMAIN majorPeriods : InPeriod(majorPeriods[i], age)}
    IN  IF hits # {} THEN CHOOSE i \in hits : \A j \in hits : i <= j
        ELSE IF Len(majorPeriods) > 0 THEN 1
        ELSE 0

----------------------------------------------------------------------------
(* Specification SpecPeriods: two calls of generateLuckPeriods with the same *)
(* arguments, entered at the same instant asOf.  Between the four reads of   *)
(* the clock that one call makes, time may pass a month boundary.            *)

Calls == {1, 2}

\* the year the calls are made in
NowYear == MaxAge + 1

\* the instants a call is entered at: November and December of NowYear
AsOfSet == {12 * NowYear + 10, 12 * NowYear + 11}

FixedChart ==
    << [name |-> "minggong", position |-> 1, stars |-> <<"ziwei">>],
       [name |-> "xiongdigong", position |-> 2, stars |-> <<>>] >>

InitPeriods ==
    /\ input \in {[lunarDate |-> [year |-> y], gender |-> g, palaces |-> FixedChart,
                   majorPeriods |-> m, asOf |-> t] :
                     y \in 0..(MaxAge + 2), g \in {"male", "female"},
                     m \in MajorPeriodSeqs, t \in AsOfSet}
    /\ output = <<>>
    /\ fpc = "ready"
    /\ clock = [c \in Calls |-> input.asOf]
    /\ lpc = [c \in Calls |-> "year"]
    /\ loc = [c \in Calls |-> <<>>]
    /\ IdleC

\* lines 153-181: the first read of the clock, the age, the major periods,
\* the active major period, the minor and the annual marker
ReadYear(c) ==
    /\ lpc[c] = "year"
    /\ LET currentYear == getFullYear(clock[c])
           birthYear == input.lunarDate.year
           age == currentYear - birthYear
           majorPeriods == input.majorPeriods
       IN  loc' = [loc EXCEPT ![c] =
                [currentYear |-> currentYear,
                 age |-> age,
                 majorPeriods |-> majorPeriods,
                 currentMajor |-> FindCurrentMajor(majorPeriods, age),
                 minorPeriod |-> calculateMinorPeriod(
                     input.lunarDate, IztroGender(input.gender), currentYear),
                 annualPeriod |-> calculateAnnualPeriod(
                     input.lunarDate, currentYear, input.palaces)]]
    /\ lpc' = [lpc EXCEPT ![c] = "month"]
    /\ UNCHANGED <<input, output, fpc, clock, cvars>>

\* lines 183-189: the second read of the clock, the monthly marker
ReadMonth(c) ==
    /\ lpc[c] = "month"
    /\ loc' = [loc EXCEPT ![c] =
            [f \in DOMAIN @ \cup {"monthlyPeriod"} |->
                IF f = "monthlyPeriod"
                THEN calculateMonthlyPeriod(
                        input.lunarDate, @.currentYear, MonthOf(clock[c]),
                        input.palaces)
                ELSE @[f]]]
    /\ lpc' = [lpc EXCEPT ![c] = "day"]
    /\ UNCHANGED <<input, output, fpc, clock, cvars>>

\* lines 191-196: the third read of the clock, the daily marker
ReadDay(c) ==
    /\ lpc[c] = "day"
    /\ loc' = [loc EXCEPT ![c] =
            [f \in DOMAIN @ \cup {"dailyPeriod"} |->
                IF f = "dailyPeriod"
                THEN calculateDailyPeriod(input.lunarDate, clock[c], input.palaces)
                ELSE @[f]]]
    /\ lpc' = [lpc EXCEPT ![c] = "hour"]
    /\ UNCHANGED <<input, output, fpc, clock, cvars>>

\* the return statement with the major list cut down to the active period
ReturnedPeriodsActiveOnly(l, hourlyPeriod) ==
    [major |-> IF l.currentMajor = 0 THEN <<>>
               ELSE <<l.majorPeriods[l.currentMajor]>>,
     minor |-> l.minorPeriod,
     annual |-> l.annualPeriod,
     monthly |-> l.monthlyPeriod,
     daily |-> l.dailyPeriod,
     hourly |-> hourlyPeriod]

\* lines 205-212: the object returned, from the local constants l
ReturnedPeriods(l, hourlyPeriod) ==
    [major |-> l.majorPeriods,
     minor |-> l.minorPeriod,
     annual |-> l.annualPeriod,
     monthly |-> l.monthlyPeriod,
     daily |-> l.dailyPeriod,
     hourly |-> hourlyPeriod]

\* lines 198-212: the fourth read of the clock, the hourly marker, the return
ReadHourAndReturn(c) ==
    /\ lpc[c] = "hour"
    /\ loc' = [loc EXCEPT ![c] =
            [f \in DOMAIN @ \cup {"result"} |->
                IF f = "result"
                THEN ReturnedPeriods(@, calculateHourlyPeriod(
                                    input.lunarDate, clock[c], input.palaces))
                ELSE @[f]]]
    /\ lpc' = [lpc EXCEPT ![c] = "done"]
    /\ UNCHANGED <<input, output, fpc, clock, cvars>>

\* time passes a month boundary while call c is between two reads of the clock
Tick(c) ==
    /\ lpc[c] \in {"month", "day", "hour"}
    /\ clock[c] - input.asOf < MaxTicks
    /\ clock' = [clock EXCEPT ![c] = @ + 1]
    /\ UNCHANGED <<input, output, fpc, lpc, loc, cvars>>

NextPeriods ==
    \E c \in Calls :
        \/ ReadYear(c)
        \/ ReadMonth(c)
        \/ ReadDay(c)
        \/ ReadHourAndReturn(c)
        \/ Tick(c)

SpecPeriods == InitPeriods /\ [][NextPeriods]_vars

\* the age a call entered at asOf works with
AgeAtAsOf == getFullYear(input.asOf) - input.lunarDate.year

\* the periods of the sequence whose range holds the age
Matching(age) ==
    {i \in DOMAIN input.majorPeriods :
        input.majorPeriods[i].startAge <= age /\ age < input.majorPeriods[i].endAge}

\* C1: with age = current year - birth year the active major period is the
\* first period with startAge <= age < endAge; when no period matches (age
\* below every range, past the last bound, or in a gap) the selection is the
\* first period of the sequence, and the call goes on to its end.
C1_FirstMatchOrFirstPeriod ==
    \A c \in Calls :
        lpc[c] # "year" =>
            /\ loc[c].age = AgeAtAsOf
            /\ Matching(AgeAtAsOf) # {} =>
                  /\ loc[c].currentMajor \in Matching(AgeAtAsOf)
                  /\ \A i \in Matching(AgeAtAsOf) : loc[c].currentMajor <= i
            /\ (Matching(AgeAtAsOf) = {} /\ Len(input.majorPeriods) > 0) =>
                  loc[c].currentMajor = 1
            /\ lpc[c] \in {"month", "day", "hour", "done"}

\* an age in the gap between two periods has fallen back to the first period,
\* and the call has returned
C1_Witness ==
    /\ lpc[1] = "done"
    /\ Len(input.majorPeriods) = 2
    /\ input.majorPeriods[1].endAge < AgeAtAsOf
    /\ AgeAtAsOf < input.majorPeriods[2].startAge
    /\ loc[1].currentMajor = 1

\* C2 as stated: an age equal to a period's startAge selects that period; an
\* age equal to a period's endAge does not select that period and selects
\* the next period whenever there is one.
C2_BoundsAsStated ==
    \A c \in Calls :
        lpc[c] # "year" =>
            \A i \in DOMAIN input.majorPeriods :
                /\ AgeAtAsOf = input.majorPeriods[i].startAge
                      => loc[c].currentMajor = i
                /\ AgeAtAsOf = input.majorPeriods[i].endAge
                      => /\ loc[c].currentMajor # i
                         /\ i < Len(input.majorPeriods) => loc[c].currentMajor = i + 1

\* C2 as amended: an age equal to a period's startAge selects that period; an
\* age equal to a period's endAge is outside that period's range, selects the
\* next period when the next period starts at that very age, and otherwise
\* selects whatever the first-match rule gives: the period is then selected
\* only as the first-period fallback, when it is the first period and no
\* period holds the age.
C2_BoundsContiguous ==
    \A c \in Calls :
        lpc[c] # "year" =>
            \A i \in DOMAIN input.majorPeriods :
                /\ AgeAtAsOf = input.majorPeriods[i].startAge
                      => loc[c].currentMajor = i
                /\ AgeAtAsOf = input.majorPeriods[i].endAge
                      => /\ i \notin Matching(AgeAtAsOf)
                         /\ (i < Len(input.majorPeriods)
                               /\ input.majorPeriods[i + 1].startAge = AgeAtAsOf)
                              => loc[c].currentMajor = i + 1
                         /\ (i < Len(input.majorPeriods)
                               /\ input.majorPeriods[i + 1].startAge # AgeAtAsOf)
                              => loc[c].currentMajor = 1
                         /\ loc[c].currentMajor = i
                              => (i = 1 /\ Matching(AgeAtAsOf) = {})

\* an age equal to the first period's endAge and the second period's startAge
\* has selected the second period
C2_Witness ==
    /\ lpc[1] # "year"
    /\ Len(input.majorPeriods) = 2
    /\ input.majorPeriods[1].endAge = AgeAtAsOf
    /\ input.majorPeriods[2].startAge = AgeAtAsOf
    /\ loc[1].currentMajor = 2

\* C11: the major list of the result is the collaborator's major period
\* sequence as it was delivered: same length, same periods, same order,
\* whatever the age and whichever period is the active one.
C11_MajorPassedThrough ==
    \A c \in Calls :
        lpc[c] = "done" =>
            /\ Len(loc[c].result.major) = Len(input.majorPeriods)
            /\ \A i \in DOMAIN input.majorPeriods :
                  loc[c].result.major[i] = input.majorPeriods[i]

\* a call whose active period is the second of two has returned both
C11_Witness ==
    /\ lpc[1] = "done"
    /\ Len(input.majorPeriods) = 2
    /\ loc[1].currentMajor = 2
    /\ Len(loc[1].result.major) = 2
    /\ loc[1].result.major[1] = input.majorPeriods[1]

\* C10: two calls with the same birth moment, gender and palaces, entered at
\* the same asOf, return the same active major period and the same period set.
C10_SameInputsSameResult ==
    (lpc[1] = "done" /\ lpc[2] = "done") =>
        /\ loc[1].currentMajor = loc[2].currentMajor
        /\ loc[1].result = loc[2].result

\* the instants the clock can show during a call
Instants == {input.asOf + k : k \in 0..MaxTicks}

\* the result a call gives when all its markers come from the instant t
DerivedFrom(l, t) ==
    /\ l.currentYear = getFullYear(t)
    /\ l.age = getFullYear(t) - input.lunarDate.year
    /\ l.result.minor.label = <<"minor", getFullYear(t)>>
    /\ l.result.annual.label = <<"annual", getFullYear(t)>>
    /\ l.result.monthly.label = <<"monthly", getFullYear(t), MonthOf(t)>>
    /\ l.result.daily.label = <<"daily", t>>
    /\ l.result.hourly.label = <<"hourly", t>>

\* C15: within one call the age and the minor, annual, monthly, daily and
\* hourly markers are all derived from one and the same instant: the year,
\* the month and the dates never come from clock readings on two sides of a
\* month or year boundary.
C15_OneInstantPerCall ==
    \A c \in Calls :
        lpc[c] = "done" => \E t \in Instants : DerivedFrom(loc[c], t)

----------------------------------------------------------------------------
(* calculateZiweiChart *)

\* the statements of the try block that call a collaborator, in program
\* order, and the statement that builds and returns the result
Steps ==
    << "convertToLunarDate", "calculateFourPillars", "getChineseZodiac",
       "getConstellation", "calculateZiweiChart", "calculateMajorPeriods",
       "calculateMinorPeriod", "calculateAnnualPeriod", "calculateMonthlyPeriod",
       "calculateDailyPeriod", "calculateHourlyPeriod", "organizeStarInfo",
       "yearStemTransformations", "dayStemTransformations",
       "findTransformationPalaces", "assemble" >>

StepIndex(step) == CHOOSE i \in DOMAIN Steps : Steps[i] = step

\* the statement that follows step
StepAfter(step) == Steps[StepIndex(step) + 1]

\* the collaborator operation a step invokes and that can throw there
OpOf(step) ==
    CASE step = "convertToLunarDate"        -> "fromYmd"
      [] step = "yearStemTransformations"   -> "getTransformationsByStem"
      [] step = "dayStemTransformations"    -> "getTransformationsByStem"
      [] step = "organizeStarInfo"          -> "getKeyStarsLocation"
      [] OTHER                              -> step

\* the star table predicates organizeStarInfo calls once per star examined
StarPredicates == {"isMainStar", "isLuckyStar", "isEvilStar"}

Ops == {OpOf(Steps[i]) : i \in 1..(Len(Steps) - 1)} \cup StarPredicates

\* the messages of the errors the collaborators throw: theirs to choose, and
\* nothing ties a message to one operation
ErrorMessages == {"illegal argument", "cannot resolve"}

\* the invocation counts after step has made its collaborator calls
Invoke(c, step, palaces) ==
    LET all == IF step = "organizeStarInfo" THEN AllStars(palaces) ELSE <<>>
        nonMain == FilterIn(all, StarNames \ MainStarTable)
        nonLucky == FilterIn(nonMain, StarNames \ LuckyStarTable)
    IN  [op \in Ops |->
            c[op] + (IF op = OpOf(step) THEN 1 ELSE 0)
                  + (IF op = "isMainStar" THEN Len(all) ELSE 0)
                  + (IF op = "isLuckyStar" THEN Len(nonMain) ELSE 0)
                  + (IF op = "isEvilStar" THEN Len(nonLucky) ELSE 0)]

\* catch (error) { ...; throw new Error(`xingpan jisuan shibai: ${error.message}`) }
Catch(error) == [message |-> <<"xingpan jisuan shibai: ", error.message>>]

\* a catch block that runs the failed statement again
AfterThrowRetry(step) == step

\* where control is after a statement of the try block has thrown: the catch
\* block rethrows, the call is over
AfterThrow(step) == "failed"

\* Tyme4tsService lookups (contract: pure lookups of year, and of month and day)
Zodiacs ==
    << "shu", "niu", "hu", "tu", "long", "she",
       "ma", "yang", "hou", "ji", "gou", "zhu" >>

getChineseZodiac(year) == Zodiacs[(year % 12) + 1]

ConstellationNames ==
    << "mojie", "shuiping", "shuangyu", "baiyang", "jinniu", "shuangzi",
       "juxie", "shizi", "chunv", "tiancheng", "tianxie", "sheshou" >>

getConstellation(month, day) ==
    ConstellationNames[((month - 1 + (IF day > 20 THEN 1 ELSE 0)) % 12) + 1]

\* the requests modelled: birth date 5-15 of year 0 or 1, 08:30
Dtos ==
    {[birthDate |-> [year |-> y, month |-> 5, day |-> 15], dateType |-> t,
      birthTime |-> [hour |-> 8, minute |-> 30], gender |-> g,
      birthPlace |-> "beijing"] :
        y \in {0, 1}, t \in {"solar", "lunar"}, g \in {"male", "female"}}

\* Solar.fromYmd(...).getLunar() / Lunar.fromYmd(...) (contract: the lunar
\* moment of the date; a solar date early in the year belongs to the lunar
\* year before)
LunarDatesOf(birthDate, dateType) ==
    IF dateType = "solar"
    THEN {[year |-> y, month |-> birthDate.month - 1, day |-> birthDate.day] :
             y \in {birthDate.year - 1, birthDate.year}}
    ELSE {[year |-> birthDate.year, month |-> birthDate.month, day |-> birthDate.day]}

PipelineFourPillars ==
    {f \in FourPillarsSet : f.year.stem \in {"jia", "yi"} /\ f.day.stem \in {"jia", "yi"}}

PipelineCharts == Charts({1, 2}, {"ziwei"}, 1)

PipelineMajorPeriods == {m \in MajorPeriodSeqs : Len(m) = 1 /\ m[1].startAge = 0}

\* the instant new Date() returns throughout one chart computation
PipelineNow == 12 * NowYear + 11

EnvFields ==
    {"lunarDate", "fourPillars", "zodiac", "constellation", "ziweiData",
     "currentYear", "age", "majorPeriods", "currentMajor", "minorPeriod",
     "annualPeriod", "monthlyPeriod", "dailyPeriod", "hourlyPeriod",
     "starsInfo", "yearStemTransformations", "dayStemTransformations",
     "transformationPalaces"}

\* the palaces known so far
EnvPalaces == IF env.ziweiData = <<>> THEN <<>> ELSE env.ziweiData.palaces

Init ==
    /\ input \in Dtos
    /\ output = <<>>
    /\ fpc = "ready"
    /\ IdleP
    /\ pc = Steps[1]
    /\ env = [f \in EnvFields |-> <<>>]
    /\ thrown = <<>>
    /\ calls = [op \in Ops |-> 0]
    /\ failedAt = "none"

\* a statement of the try block completes: its collaborator call returned
Completes(step, field, value) ==
    /\ pc = step
    /\ env' = [env EXCEPT ![field] = value]
    /\ calls' = Invoke(calls, step, EnvPalaces)
    /\ pc' = StepAfter(step)
    /\ UNCHANGED <<input, output, fpc, pvars, thrown, failedAt>>

\* line 34
StepConvertToLunarDate ==
    \E l \in LunarDatesOf(input.birthDate, input.dateType) :
        Completes("convertToLunarDate", "lunarDate", l)

\* lines 37-41
StepCalculateFourPillars ==
    \E f \in PipelineFourPillars : Completes("calculateFourPillars", "fourPillars", f)

\* line 44
StepGetChineseZodiac ==
    Completes("getChineseZodiac", "zodiac", getChineseZodiac(env.lunarDate.year))

\* lines 45-48
StepGetConstellation ==
    Completes("getConstellation", "constellation",
              getConstellation(input.birthDate.month, input.birthDate.day))

\* lines 51-58
StepCalculateZiweiChart ==
    \E c \in PipelineCharts :
        Completes("calculateZiweiChart", "ziweiData", [palaces |-> c])

\* lines 154-167
StepCalculateMajorPeriods ==
    \E m \in PipelineMajorPeriods :
        /\ pc = "calculateMajorPeriods"
        /\ LET currentYear == getFullYear(PipelineNow)
               age == currentYear - env.lunarDate.year
           IN  env' = [env EXCEPT !.currentYear = currentYear,
                                  !.age = age,
                                  !.majorPeriods = m,
                                  !.currentMajor = FindCurrentMajor(m, age)]
        /\ calls' = Invoke(calls, "calculateMajorPeriods", EnvPalaces)
        /\ pc' = StepAfter("calculateMajorPeriods")
        /\ UNCHANGED <<input, output, fpc, pvars, thrown, failedAt>>

\* lines 170-174
StepCalculateMinorPeriod ==
    Completes("calculateMinorPeriod", "minorPeriod",
              calculateMinorPeriod(env.lunarDate, IztroGender(input.gender),
                                   env.currentYear))

\* lines 177-181
StepCalculateAnnualPeriod ==
    Completes("calculateAnnualPeriod", "annualPeriod",
              calculateAnnualPeriod(env.lunarDate, env.currentYear, EnvPalaces))

\* lines 184-189
StepCalculateMonthlyPeriod ==
    Completes("calculateMonthlyPeriod", "monthlyPeriod",
              calculateMonthlyPeriod(env.lunarDate, env.currentYear,
                                     MonthOf(PipelineNow), EnvPalaces))

\* lines 192-196
StepCalculateDailyPeriod ==
    Completes("calculateDailyPeriod", "dailyPeriod",
              calculateDailyPeriod(env.lunarDate, PipelineNow, EnvPalaces))

\* lines 199-203
StepCalculateHourlyPeriod ==
    Completes("calculateHourlyPeriod", "hourlyPeriod",
              calculateHourlyPeriod(env.lunarDate, PipelineNow, EnvPalaces))

\* line 68
StepOrganizeStarInfo ==
    Completes("organizeStarInfo", "starsInfo", organizeStarInfo(EnvPalaces))

\* line 255
StepYearStemTransformations ==
    Completes("yearStemTransformations", "yearStemTransformations",
              getTransformationsByStem(env.fourPillars.year.stem))

\* line 258
StepDayStemTransformations ==
    Completes("dayStemTransformations", "dayStemTransformations",
              getTransformationsByStem(env.fourPillars.day.stem))

\* lines 261-264
StepFindTransformationPalaces ==
    Completes("findTransformationPalaces", "transformationPalaces",
              findTransformationPalaces(
                  env.yearStemTransformations \o env.dayStemTransformations,
                  EnvPalaces))

\* lines 74-94: the result is built and returned
StepAssemble ==
    /\ pc = "assemble"
    /\ output' =
          [zodiac |-> env.zodiac,
           constellation |-> env.constellation,
           fourPillars |-> env.fourPillars,
           palaces |-> EnrichPalaces(EnvPalaces),
           luckPeriods |-> [major |-> env.majorPeriods,
                            minor |-> env.minorPeriod,
                            annual |-> env.annualPeriod,
                            monthly |-> env.monthlyPeriod,
                            daily |-> env.dailyPeriod,
                            hourly |-> env.hourlyPeriod],
           starsInfo |-> env.starsInfo,
           transformations |->
               [yearStem |-> [stem |-> env.fourPillars.year.stem,
                              transformations |-> env.yearStemTransformations],
                dayStem |-> [stem |-> env.fourPillars.day.stem,
                             transformations |-> env.dayStemTransformations],
                palaces |-> env.transformationPalaces],
           calculationTime |-> PipelineNow]
    /\ pc' = "returned"
    /\ UNCHANGED <<input, fpc, pvars, env, thrown, calls, failedAt>>

\* lines 95-98: the collaborator call of the current statement throws; the
\* catch block wraps the error's message and rethrows
CollaboratorThrows ==
    /\ pc \in {Steps[i] : i \in 1..(Len(Steps) - 1)}
    /\ \E m \in ErrorMessages :
          thrown' = Catch([message |-> m])
    /\ calls' = Invoke(calls, pc, EnvPalaces)
    /\ failedAt' = pc
    /\ pc' = AfterThrow(pc)
    /\ UNCHANGED <<input, output, fpc, pvars, env>>

Next ==
    \/ StepConvertToLunarDate
    \/ StepCalculateFourPillars
    \/ StepGetChineseZodiac
    \/ StepGetConstellation
    \/ StepCalculateZiweiChart
    \/ StepCalculateMajorPeriods
    \/ StepCalculateMinorPeriod
    \/ StepCalculateAnnualPeriod
    \/ StepCalculateMonthlyPeriod
    \/ StepCalculateDailyPeriod
    \/ StepCalculateHourlyPeriod
    \/ StepOrganizeStarInfo
    \/ StepYearStemTransformations
    \/ StepDayStemTransformations
    \/ StepFindTransformationPalaces
    \/ StepAssemble
    \/ CollaboratorThrows

Spec == Init /\ [][Next]_vars

\* C7: the chart result has one palace per input palace, in the same order,
\* with the input palace's name, position and star list, and isVoid is true
\* exactly when the star list is empty.
C7_PalacesCarriedVoidIffEmpty ==
    pc = "returned" =>
        /\ Len(output.palaces) = Len(env.ziweiData.palaces)
        /\ \A i \in DOMAIN env.ziweiData.palaces :
              /\ output.palaces[i].name = env.ziweiData.palaces[i].name
              /\ output.palaces[i].position = env.ziweiData.palaces[i].position
              /\ output.palaces[i].stars = env.ziweiData.palaces[i].stars
              /\ output.palaces[i].isVoid <=> (env.ziweiData.palaces[i].stars = <<>>)

\* a chart with an empty first palace and a star in the second was returned
C7_Witness ==
    /\ pc = "returned"
    /\ output.palaces[1].stars = <<>>
    /\ output.palaces[1].isVoid
    /\ output.palaces[2].stars = <<"ziwei">>
    /\ ~output.palaces[2].isVoid
    /\ output.palaces[2].position = 1

\* the stage a statement belongs to: the calendar collaborator turns the
\* request's date into a lunar moment, pillars, zodiac and constellation (a
\* failure there is a bad-input failure), the chart primitive does the rest
StageOf(step) ==
    IF StepIndex(step) <= StepIndex("getConstellation")
    THEN "calendar"
    ELSE "chart primitive"

\* C8: the error the caller receives identifies the failing stage: no failure
\* at a statement of the other stage gives the caller the same error.
C8_StageIdentified ==
    pc = "failed" =>
        \A i \in 1..(Len(Steps) - 1) : \A m \in ErrorMessages :
            Catch([message |-> m]) = thrown => StageOf(Steps[i]) = StageOf(failedAt)

\* the local constant a statement sets
FieldOf(step) ==
    CASE step = "convertToLunarDate"   -> "lunarDate"
      [] step = "calculateFourPillars" -> "fourPillars"
      [] step = "getChineseZodiac"     -> "zodiac"
      [] step = "getConstellation"     -> "constellation"
      [] step = "calculateZiweiChart"  -> "ziweiData"
      [] step = "calculateMajorPeriods"  -> "majorPeriods"
      [] step = "calculateMinorPeriod"   -> "minorPeriod"
      [] step = "calculateAnnualPeriod"  -> "annualPeriod"
      [] step = "calculateMonthlyPeriod" -> "monthlyPeriod"
      [] step = "calculateDailyPeriod"   -> "dailyPeriod"
      [] step = "calculateHourlyPeriod"  -> "hourlyPeriod"
      [] step = "organizeStarInfo"       -> "starsInfo"
      [] step = "findTransformationPalaces" -> "transformationPalaces"
      [] OTHER -> step

\* the statements that have run their collaborator call when control is at
\* index k (the statement at k included when it threw)
StepsRunUpTo(k) == {i \in 1..(Len(Steps) - 1) : i <= k}

\* C9 as stated: every collaborator operation is invoked at most once per
\* chart computation, and a failure ends the computation at once with no
\* result.
C9_AtMostOncePerOperation ==
    /\ \A op \in Ops : calls[op] <= 1
    /\ pc = "failed" => (output = <<>> /\ ~ENABLED Next)

\* C9 as amended: a failure ends the computation at once (no statement after
\* the failing one has run, nothing is enabled any more), the failing call
\* was made once and not again, and no result is returned; every collaborator
\* operation is invoked at most once per computation except
\* getTransformationsByStem (once for the year stem, once for the day stem)
\* and the star table predicates (once per star examined at most).
C9_FailureEndsAtOnce ==
    /\ \A op \in Ops \ (StarPredicates \cup {"getTransformationsByStem"}) :
          calls[op] <= 1
    /\ calls["getTransformationsByStem"] <= 2
    /\ \A op \in StarPredicates : calls[op] <= Len(AllStars(EnvPalaces))
    /\ pc = "failed" =>
          /\ output = <<>>
          /\ thrown # <<>>
          /\ ~ENABLED Next
          /\ \A i \in 1..(Len(Steps) - 1) :
                /\ i >= StepIndex(failedAt) => env[FieldOf(Steps[i])] = <<>>
                /\ calls[OpOf(Steps[i])]
                     = Cardinality({j \in StepsRunUpTo(StepIndex(failedAt)) :
                                       OpOf(Steps[j]) = OpOf(Steps[i])})
    /\ pc = "returned" => (thrown = <<>> /\ failedAt = "none")
    /\ (pc \notin {"failed", "returned"}) => (thrown = <<>> /\ output = <<>>)

\* the day stem's table lookup threw after the year stem's had returned: the
\* lookup was invoked twice, the palace location step never ran, no result
C9_Witness ==
    /\ pc = "failed"
    /\ failedAt = "dayStemTransformations"
    /\ calls["getTransformationsByStem"] = 2
    /\ calls["findTransformationPalaces"] = 0
    /\ env.yearStemTransformations # <<>>
    /\ output = <<>>

----------------------------------------------------------------------------
(* Specification SpecLookup: getPalaceSignificance and getPalaceDirection    *)
(* applied to any name and position: the twelve names of the table, names   *)
(* that are not in it, and the positions of the ring and the one below it   *)

LookupNames ==
    {PalaceNames[i] : i \in DOMAIN PalaceNames}
        \cup {"shengong", "", "constructor", "toString", "__proto__"}

InitLookup ==
    /\ input \in {[palaceName |-> n, position |-> p] :
                     n \in LookupNames, p \in RingPositions \cup {0}}
    /\ output = <<>>
    /\ fpc = "ready"
    /\ IdleP
    /\ IdleC

ApplyLookups ==
    /\ fpc = "ready"
    /\ output' = [significance |-> getPalaceSignificance(input.palaceName),
                  direction |-> getPalaceDirection(input.position)]
    /\ fpc' = "done"
    /\ UNCHANGED <<input, pvars, cvars>>

NextLookup == ApplyLookups

SpecLookup == InitLookup /\ [][NextLookup]_vars

\* C12: getPalaceSignificance gives each of the twelve names of its table
\* that name's meaning and any other name the sentinel 'weizhi gongwei';
\* getPalaceDirection gives every position in 1..12 one of the eight
\* directions, never the fallback 'weizhi'.
C12_SentinelForUnknownName ==
    fpc = "done" =>
        /\ input.palaceName \in DOMAIN significanceMap
              => output.significance = significanceMap[input.palaceName]
        /\ input.palaceName \notin DOMAIN significanceMap
              => output.significance = "weizhi gongwei"
        /\ input.position \in RingPositions
              => /\ \E k \in DOMAIN directions : output.direction = directions[k]
                 /\ output.direction # "weizhi"

----------------------------------------------------------------------------
(* getTripleSquarePalaces *)

\* the position of a canonical palace name on the ring, 0 for any other name
PositionOfName(name) ==
    IF \E i \in DOMAIN PalaceNames : PalaceNames[i] = name
    THEN CHOOSE i \in DOMAIN PalaceNames : PalaceNames[i] = name
    ELSE 0

\* the position at cyclic offset k from p on the ring 1..12
RingOffset(p, k) == ((p - 1 + k + Len(PalaceNames)) % Len(PalaceNames)) + 1

\* IztroService.getTripleSquarePalaces (contract: a constant table by palace
\* name; the triplicate palaces are at cyclic offsets +4 and -4, the square
\* palace at offset +6, allRelatedPalaces is the palace itself and these
\* three; an unknown name fails with InvalidPalaceError)
iztroGetTripleSquarePalaces(palaceName) ==
    LET p == PositionOfName(palaceName)
    IN  IF p = 0
        THEN [threw |-> TRUE, error |-> "InvalidPalaceError", value |-> <<>>]
        ELSE [threw |-> FALSE, error |-> "",
              value |->
                [originalPalace |-> palaceName,
                 triplePalaces |-> << PalaceNames[RingOffset(p, 4)],
                                      PalaceNames[RingOffset(p, -4)] >>,
                 squarePalaces |-> << PalaceNames[RingOffset(p, 6)] >>,
                 allRelatedPalaces |-> << palaceName,
                                          PalaceNames[RingOffset(p, 4)],
                                          PalaceNames[RingOffset(p, -4)],
                                          PalaceNames[RingOffset(p, 6)] >>]]

\* the method handing back the collaborator's answer with the triplicate and
\* the square lists exchanged
getTripleSquarePalacesExchanged(palaceName) ==
    LET r == iztroGetTripleSquarePalaces(palaceName)
    IN  IF r.threw THEN r
        ELSE [r EXCEPT !.value.triplePalaces = r.value.squarePalaces,
                       !.value.squarePalaces = r.value.triplePalaces]

\* ZiweiService.getTripleSquarePalaces: the collaborator's answer as it is
getTripleSquarePalaces(palaceName) == iztroGetTripleSquarePalaces(palaceName)

----------------------------------------------------------------------------
(* Specification SpecGeometry: getTripleSquarePalaces asked for any name,    *)
(* then asked again for palaces that an answer named                        *)

GeometryNames == {PalaceNames[i] : i \in DOMAIN PalaceNames} \cup {"shengong"}

InitGeometry ==
    /\ input \in {[palaceName |-> n] : n \in GeometryNames}
    /\ output = <<>>
    /\ fpc = "ready"
    /\ IdleP
    /\ IdleC

\* the first query, for the name given
AskTripleSquare ==
    /\ fpc = "ready"
    /\ output' = <<getTripleSquarePalaces(input.palaceName)>>
    /\ fpc' = "done"
    /\ UNCHANGED <<input, pvars, cvars>>

\* a further query, for a palace the last answer named
AskTripleSquareOfRelated ==
    /\ fpc = "done"
    /\ Len(output) <= MaxHops
    /\ ~output[Len(output)].threw
    /\ \E k \in DOMAIN output[Len(output)].value.allRelatedPalaces :
          output' = Append(output,
              getTripleSquarePalaces(output[Len(output)].value.allRelatedPalaces[k]))
    /\ UNCHANGED <<input, fpc, pvars, cvars>>

NextGeometry == AskTripleSquare \/ AskTripleSquareOfRelated

SpecGeometry == InitGeometry /\ [][NextGeometry]_vars

\* the positions of the palaces a list names
PositionsOf(names) == {PositionOfName(names[i]) : i \in DOMAIN names}

----------------------------------------------------------------------------
(* checkPalaceTransformation *)

\* lines 315-320: the built-in palace list
mockPalaces ==
    << [name |-> "minggong", stars |-> <<"ziwei", "tianfu">>],
       [name |-> "xiongdigong", stars |-> <<"tianji">>],
       [name |-> "fuqigong", stars |-> <<"taiyang", "taiyin">>] >>

MockStars == {"ziwei", "tianfu", "tianji", "taiyang", "taiyin"}

\* the answers IztroService.getStarTransformation can give for a star: none,
\* or a transformation with a type and a name
NoTransformation == [type |-> "none", name |-> <<"name", "none">>]

StarTransformations ==
    {NoTransformation}
        \cup {[type |-> TransformationTypes[k], name |-> <<"name", TransformationTypes[k]>>] :
                 k \in DOMAIN TransformationTypes}

\* IztroService.getStarTransformation, with the collaborator's table given
getStarTransformation(table, star) == table[star]

\* whether name is one of names (Array.prototype.includes)
Includes(names, name) == \E i \in DOMAIN names : names[i] = name

\* lines 326-335: the entries one palace of the list adds to details
DetailsOfPalace(palace, transformationType, table) ==
    LET hit == SelectSeq(palace.stars, LAMBDA star :
                  /\ getStarTransformation(table, star) # NoTransformation
                  /\ getStarTransformation(table, star).type = transformationType)
    IN  [j \in DOMAIN hit |->
            [palace |-> palace.name, star |-> hit[j],
             transformation |-> getStarTransformation(table, hit[j]).name]]

\* lines 323-337 without the test of line 325
RECURSIVE DetailsUnfiltered(_, _, _)
DetailsUnfiltered(palaces, transformationType, table) ==
    IF palaces = <<>> THEN <<>>
    ELSE DetailsOfPalace(Head(palaces), transformationType, table)
            \o DetailsUnfiltered(Tail(palaces), transformationType, table)

\* lines 323-337: the loop over the built-in list
RECURSIVE Details(_, _, _, _)
Details(palaces, allRelatedPalaces, transformationType, table) ==
    IF palaces = <<>> THEN <<>>
    ELSE (IF Includes(allRelatedPalaces, Head(palaces).name)
          THEN DetailsOfPalace(Head(palaces), transformationType, table)
          ELSE <<>>)
            \o Details(Tail(palaces), allRelatedPalaces, transformationType, table)

\* the method with every palace of the built-in list taken as related
checkPalaceTransformationAnyPalace(palaceName, transformationType, table) ==
    LET related == getTripleSquarePalaces(palaceName)
    IN  IF related.threw THEN related
        ELSE LET details == DetailsUnfiltered(mockPalaces, transformationType, table)
             IN  [threw |-> FALSE, error |-> "",
                  value |-> [exists |-> Len(details) > 0, details |-> details]]

\* ZiweiService.checkPalaceTransformation; a failure of
\* getTripleSquarePalaces is the failure of the method
checkPalaceTransformation(palaceName, transformationType, table) ==
    LET related == getTripleSquarePalaces(palaceName)
    IN  IF related.threw THEN related
        ELSE LET details == Details(mockPalaces, related.value.allRelatedPalaces,
                                    transformationType, table)
             IN  [threw |-> FALSE, error |-> "",
                  value |-> [exists |-> Len(details) > 0, details |-> details]]

----------------------------------------------------------------------------
(* Specification SpecQuery: ZiweiController.checkPalaceTransformation asked  *)
(* for any palace name and type, with any chart computed before and any      *)
(* table of star transformations in the collaborator                         *)

\* the charts a caller may have computed before asking
QueryCharts ==
    { FixedChart,
      << [name |-> "minggong", position |-> 1, stars |-> <<>>],
         [name |-> "xiongdigong", position |-> 2, stars |-> <<"ziwei", "tianji">>] >> }

InitQuery ==
    /\ input \in {[palaceName |-> n, transformationType |-> t, chart |-> c,
                   starTable |-> tb] :
                     n \in GeometryNames,
                     t \in {TransformationTypes[k] : k \in DOMAIN TransformationTypes},
                     c \in QueryCharts,
                     tb \in [MockStars -> StarTransformations]}
    /\ output = <<>>
    /\ fpc = "ready"
    /\ IdleP
    /\ IdleC

\* the controller hands the two parameters to the service and returns its answer
ApplyCheckPalaceTransformation ==
    /\ fpc = "ready"
    /\ output' = checkPalaceTransformation(
                    input.palaceName, input.transformationType, input.starTable)
    /\ fpc' = "done"
    /\ UNCHANGED <<input, pvars, cvars>>

NextQuery == ApplyCheckPalaceTransformation

SpecQuery == InitQuery /\ [][NextQuery]_vars

\* the (palace, star) pairs of the built-in list, in its order
BuiltInPairs ==
    << <<"minggong", "ziwei">>, <<"minggong", "tianfu">>, <<"xiongdigong", "tianji">>,
       <<"fuqigong", "taiyang">>, <<"fuqigong", "taiyin">> >>

\* the pairs an answer reports, in its order
ReportedPairs(details) == [j \in DOMAIN details |-> <<details[j].palace, details[j].star>>]

\* C16: exists is true exactly when details is non-empty; every entry of
\* details names a palace among allRelatedPalaces of the queried palace and a
\* star whose transformation has the requested type; details is the built-in
\* list's pairs that pass these two tests, in the list's order, whatever
\* chart was computed.
C16_ExistsIffDetailsFromBuiltInList ==
    (fpc = "done" /\ ~output.threw) =>
        LET related == iztroGetTripleSquarePalaces(input.palaceName).value.allRelatedPalaces
            details == output.value.details
        IN  /\ output.value.exists <=> details # <<>>
            /\ \A j \in DOMAIN details :
                  /\ \E i \in DOMAIN related : related[i] = details[j].palace
                  /\ input.starTable[details[j].star].type = input.transformationType
                  /\ details[j].transformation = input.starTable[details[j].star].name
            /\ ReportedPairs(details)
                  = SelectSeq(BuiltInPairs, LAMBDA pr :
                        /\ \E i \in DOMAIN related : related[i] = pr[1]
                        /\ input.starTable[pr[2]].type = input.transformationType)

\* asked for guanlugong and huaquan with a chart whose minggong is empty: the
\* answer names ziwei in minggong from the built-in list, nothing from
\* xiongdigong, which is not related, though tianji has the type asked for,
\* and nothing from fuqigong, which is related but holds other types
C16_Witness ==
    /\ fpc = "done"
    /\ input.palaceName = "guanlugong"
    /\ input.transformationType = "huaquan"
    /\ input.chart[1].stars = <<>>
    /\ input.starTable["ziwei"].type = "huaquan"
    /\ input.starTable["tianji"].type = "huaquan"
    /\ input.starTable["tianfu"].type = "none"
    /\ input.starTable["taiyang"].type = "huaji"
    /\ input.starTable["taiyin"].type = "huake"
    /\ ~output.threw
    /\ output.value.exists
    /\ ReportedPairs(output.value.details) = << <<"minggong", "ziwei">> >>

====
